---- MODULE Spec2Model ----
(***************************************************************************)
(* Model of the PAM conversation bridge of pam_totp                        *)
(* (src/pam_bridge/pam_bridge.c, src/pam_bridge/include/pam_bridge.h).     *)
(*                                                                         *)
(* pam_msg is modelled statement by statement: one action per statement,   *)
(* with the program counter pc naming the statement that runs next.  The   *)
(* three public wrappers enter pam_msg with their fixed style.  The host   *)
(* side (the channel handed in, what the conversation callback returns)    *)
(* is the environment and is drawn from small sets.                        *)
(*                                                                         *)
(* Numeric values of the PAM_* names are those of Linux-PAM's              *)
(* <security/_pam_types.h>; only their being pairwise distinct matters.    *)
(***************************************************************************)
EXTENDS Integers, Sequences, FiniteSets, TLC

\* ------------------------------------------------------------------------
\* Bounds and sample sets of the environment
\* ------------------------------------------------------------------------

\* longest response buffer (in bytes) the conversation callback allocates
MaxBuf == 3

\* a byte is zero or not; 1 stands for any non-zero byte
Bytes == {0, 1}

\* texts the callers pass
Texts == {"Enter code:", "Info"}

\* ------------------------------------------------------------------------
\* Program constants
\* ------------------------------------------------------------------------

PAM_SUCCESS == 0
PAM_SYSTEM_ERR == 4
PAM_AUTH_ERR == 7
PAM_USER_UNKNOWN == 10
PAM_CONV_ERR == 19
PAM_IGNORE == 25

PAM_TOTP_SUCCESS == PAM_SUCCESS
PAM_TOTP_AUTH_ERR == PAM_AUTH_ERR
PAM_TOTP_USER_UNKNOWN == PAM_USER_UNKNOWN
PAM_TOTP_IGNORE == PAM_IGNORE

PAM_PROMPT_ECHO_ON == 2
PAM_ERROR_MSG == 3
PAM_TEXT_INFO == 4

\* pointers are names of the objects they point to
NULL == "NULL"

\* ------------------------------------------------------------------------
\* State
\* ------------------------------------------------------------------------

VARIABLES
    pc,           \* statement of pam_msg that runs next; "idle" between calls
    entry,        \* the public function through which the current call came
    pamh,         \* parameter pamh: the channel as the host set it up
    style,        \* parameter style
    msg,          \* parameter msg
    conv,         \* local conv: NULL or "conv"
    pmsg,         \* local pmsg (pmsg_ptr is its address)
    resp,         \* local resp: NULL or "env"
    ret,          \* local ret
    heap,         \* the response envelope and its secret field
    cb,           \* what the conversation callback did in this call
    invocations,  \* the callback's invocations in this call, as it saw them
    log,          \* memset and free calls of this call, in order
    result,       \* value returned to the caller of the wrapper
    prev          \* the previous completed call, as the caller saw it

vars == <<pc, entry, pamh, style, msg, conv, pmsg, resp, ret, heap, cb,
          invocations, log, result, prev>>

\* response buffers: C strings, so each holds a terminator; the allocation
\* may extend beyond it
Buffers ==
    {b \in UNION {[1..n -> Bytes] : n \in 1..MaxBuf} :
        \E i \in DOMAIN b : b[i] = 0}

\* what pam_get_item yields for PAM_CONV, and the structure it points to
Channels ==
    {[item_ret |-> r, conv |-> c, conv_fn |-> f, appdata_ptr |-> "appdata"] :
        r \in {PAM_SUCCESS, PAM_SYSTEM_ERR},
        c \in {NULL, "conv"},
        f \in {NULL, "cb"}}

\* channels the host can hand in: conv_fn is meaningful only behind a
\* non-null conv, and conv only after a successful lookup
HostChannels ==
    {p \in Channels :
        /\ (p.item_ret # PAM_SUCCESS => p.conv = NULL)
        /\ (p.conv = NULL => p.conv_fn = NULL)}

RawCodes ==
    {PAM_SUCCESS, PAM_AUTH_ERR, PAM_USER_UNKNOWN, PAM_IGNORE,
     PAM_CONV_ERR, PAM_SYSTEM_ERR}

\* the callback's result: raw code, and the response it stored in *resp
NoCb == [ret |-> 0, resp |-> NULL, field |-> NULL, bytes |-> <<>>]

CbOutcomes ==
    {[ret |-> r, resp |-> NULL, field |-> NULL, bytes |-> <<>>] :
        r \in RawCodes}
    \cup {[ret |-> r, resp |-> "env", field |-> NULL, bytes |-> <<>>] :
        r \in RawCodes}
    \cup {[ret |-> r, resp |-> "env", field |-> "buf", bytes |-> b] :
        r \in RawCodes, b \in Buffers}

EmptyHeap ==
    [env |-> [live |-> FALSE, resp |-> NULL],
     buf |-> [live |-> FALSE, bytes |-> <<>>]]

NoPrev ==
    [valid |-> FALSE, entry |-> "", msg |-> "", pamh |-> CHOOSE p \in HostChannels : TRUE,
     invoked |-> FALSE, cb |-> NoCb, result |-> 0, heap |-> EmptyHeap]

\* ------------------------------------------------------------------------
\* Library functions
\* ------------------------------------------------------------------------

RECURSIVE strlen(_)
strlen(s) ==
    IF s = <<>> \/ Head(s) = 0 THEN 0 ELSE 1 + strlen(Tail(s))

memset(s, c, n) ==
    [i \in 1..Len(s) |-> IF i <= n THEN c ELSE s[i]]

\* free(p): the object stops being live; its storage is gone
free(h, p) ==
    IF p = "buf"
    THEN [h EXCEPT !.buf = [live |-> FALSE, bytes |-> <<>>]]
    ELSE [h EXCEPT !.env = [live |-> FALSE, resp |-> NULL]]

\* ------------------------------------------------------------------------
\* pam_msg, statement by statement
\* ------------------------------------------------------------------------

Init ==
    /\ pc = "idle"
    /\ entry = ""
    /\ pamh = CHOOSE p \in HostChannels : TRUE
    /\ style = 0
    /\ msg = ""
    /\ conv = NULL
    /\ pmsg = [msg_style |-> 0, msg |-> ""]
    /\ resp = NULL
    /\ ret = 0
    /\ heap = EmptyHeap
    /\ cb = NoCb
    /\ invocations = <<>>
    /\ log = <<>>
    /\ result = 0
    /\ prev = NoPrev

\* entry of pam_msg: parameters bound, resp initialised to NULL; the other
\* locals are not initialised
pam_msg(e, s, m, p) ==
    /\ pc = "idle"
    /\ pc' = "get_item"
    /\ entry' = e
    /\ pamh' = p
    /\ style' = s
    /\ msg' = m
    /\ resp' = NULL
    /\ cb' = NoCb
    /\ invocations' = <<>>
    /\ log' = <<>>
    /\ UNCHANGED <<conv, pmsg, ret, heap, result, prev>>

pam_totp_prompt ==
    \E m \in Texts, p \in HostChannels :
        pam_msg("pam_totp_prompt", PAM_PROMPT_ECHO_ON, m, p)

pam_totp_info_swapped ==
    \E m \in Texts, p \in HostChannels :
        pam_msg("pam_totp_info", PAM_ERROR_MSG, m, p)

pam_totp_info ==
    \E m \in Texts, p \in HostChannels :
        pam_msg("pam_totp_info", PAM_TEXT_INFO, m, p)

pam_totp_error ==
    \E m \in Texts, p \in HostChannels :
        pam_msg("pam_totp_error", PAM_ERROR_MSG, m, p)

\* ret = pam_get_item(pamh, PAM_CONV, &conv)
pam_get_item ==
    /\ pc = "get_item"
    /\ ret' = pamh.item_ret
    /\ conv' = IF pamh.item_ret = PAM_SUCCESS THEN pamh.conv ELSE conv
    /\ pc' = "check"
    /\ UNCHANGED <<entry, pamh, style, msg, pmsg, resp, heap, cb,
                   invocations, log, result, prev>>

ConvUnavailable_nofn(r, c, f) ==
    r # PAM_SUCCESS \/ c = NULL

\* ret != PAM_SUCCESS || conv == NULL || conv->conv == NULL
ConvUnavailable(r, c, f) ==
    r # PAM_SUCCESS \/ c = NULL \/ f = NULL

\* the early return of PAM_CONV_ERR
CheckConv ==
    /\ pc = "check"
    /\ IF ConvUnavailable(ret, conv, pamh.conv_fn)
       THEN /\ result' = PAM_CONV_ERR
            /\ pc' = "done"
       ELSE /\ pc' = "build"
            /\ UNCHANGED result
    /\ UNCHANGED <<entry, pamh, style, msg, conv, pmsg, resp, ret, heap, cb,
                   invocations, log, prev>>

BuildMessage_cached(old, s, m) ==
    IF old.msg # "" THEN old ELSE [msg_style |-> s, msg |-> m]

\* pmsg.msg_style = style; pmsg.msg = msg
BuildMessage(old, s, m) ==
    [msg_style |-> s, msg |-> m]

Build ==
    /\ pc = "build"
    /\ pmsg' = BuildMessage(pmsg, style, msg)
    /\ pc' = "conv"
    /\ UNCHANGED <<entry, pamh, style, msg, conv, resp, ret, heap, cb,
                   invocations, log, result, prev>>

AfterConv_retry(r, n) ==
    IF r # PAM_SUCCESS /\ n < 2 THEN "conv" ELSE "cleanup"

\* the statement that follows the callback's return, whatever it returned
\* and however often it has run
AfterConv(r, n) ==
    "cleanup"

\* ret = conv->conv(1, &pmsg_ptr, &resp, conv->appdata_ptr)
CallConv ==
    /\ pc = "conv"
    /\ \E c \in CbOutcomes :
        /\ cb' = c
        /\ ret' = c.ret
        /\ resp' = IF c.resp # NULL THEN c.resp ELSE resp
        /\ heap' = IF c.resp # NULL
                   THEN [env |-> [live |-> TRUE, resp |-> c.field],
                         buf |-> [live |-> c.field # NULL, bytes |-> c.bytes]]
                   ELSE heap
        /\ invocations' = Append(invocations,
               [num_msg |-> 1, msg_style |-> pmsg.msg_style, msg |-> pmsg.msg,
                appdata_ptr |-> pamh.appdata_ptr])
        /\ pc' = AfterConv(c.ret, Len(invocations) + 1)
    /\ UNCHANGED <<entry, pamh, style, msg, conv, pmsg, log, result, prev>>

NeedCleanup_onsuccess(p, r) ==
    p # NULL /\ r = PAM_SUCCESS

\* resp != NULL
NeedCleanup(p, r) ==
    p # NULL

CheckResp ==
    /\ pc = "cleanup"
    /\ pc' = IF NeedCleanup(resp, ret) THEN "field" ELSE "return"
    /\ UNCHANGED <<entry, pamh, style, msg, conv, pmsg, resp, ret, heap, cb,
                   invocations, log, result, prev>>

AfterFieldCheck_inner(f) ==
    IF f # NULL THEN "memset" ELSE "return"

\* resp->resp != NULL
AfterFieldCheck(f) ==
    IF f # NULL THEN "memset" ELSE "free_resp"

CheckField ==
    /\ pc = "field"
    /\ pc' = AfterFieldCheck(heap.env.resp)
    /\ UNCHANGED <<entry, pamh, style, msg, conv, pmsg, resp, ret, heap, cb,
                   invocations, log, result, prev>>

ZeroLen_whole(s) ==
    Len(s)

\* the length handed to memset: strlen(resp->resp)
ZeroLen(s) ==
    strlen(s)

\* memset(resp->resp, 0, strlen(resp->resp))
ZeroField ==
    /\ pc = "memset"
    /\ LET n == ZeroLen(heap.buf.bytes)
           z == memset(heap.buf.bytes, 0, n)
       IN  /\ heap' = [heap EXCEPT !.buf.bytes = z]
           /\ log' = Append(log, [op |-> "memset", obj |-> heap.env.resp,
                                  n |-> n, bytes |-> z])
    /\ pc' = "free_field"
    /\ UNCHANGED <<entry, pamh, style, msg, conv, pmsg, resp, ret, cb,
                   invocations, result, prev>>

FreeFieldHeap_leak(h) ==
    h

\* the heap after free(resp->resp)
FreeFieldHeap(h) ==
    free(h, h.env.resp)

FreeField ==
    /\ pc = "free_field"
    /\ log' = Append(log, [op |-> "free", obj |-> heap.env.resp, n |-> 0,
                           bytes |-> heap.buf.bytes])
    /\ heap' = FreeFieldHeap(heap)
    /\ pc' = "free_resp"
    /\ UNCHANGED <<entry, pamh, style, msg, conv, pmsg, resp, ret, cb,
                   invocations, result, prev>>

\* free(resp)
FreeResp ==
    /\ pc = "free_resp"
    /\ log' = Append(log, [op |-> "free", obj |-> resp, n |-> 0,
                           bytes |-> <<>>])
    /\ heap' = free(heap, resp)
    /\ pc' = "return"
    /\ UNCHANGED <<entry, pamh, style, msg, conv, pmsg, resp, ret, cb,
                   invocations, result, prev>>

ReturnValue_collapsed(r) ==
    IF r = PAM_SUCCESS THEN PAM_SUCCESS ELSE PAM_AUTH_ERR

\* return ret
ReturnValue(r) ==
    r

Return ==
    /\ pc = "return"
    /\ result' = ReturnValue(ret)
    /\ pc' = "done"
    /\ UNCHANGED <<entry, pamh, style, msg, conv, pmsg, resp, ret, heap, cb,
                   invocations, log, prev>>

\* the wrapper hands pam_msg's value to its caller
WrapperReturn ==
    /\ pc = "done"
    /\ pc' = "idle"
    /\ prev' = [valid |-> TRUE, entry |-> entry, msg |-> msg, pamh |-> pamh,
                invoked |-> invocations # <<>>, cb |-> cb,
                result |-> result, heap |-> heap]
    /\ UNCHANGED <<entry, pamh, style, msg, conv, pmsg, resp, ret, heap, cb,
                   invocations, log, result>>

Next ==
    \/ pam_totp_prompt
    \/ pam_totp_info
    \/ pam_totp_error
    \/ pam_get_item
    \/ CheckConv
    \/ Build
    \/ CallConv
    \/ CheckResp
    \/ CheckField
    \/ ZeroField
    \/ FreeField
    \/ FreeResp
    \/ Return
    \/ WrapperReturn

Spec == Init /\ [][Next]_vars

\* ------------------------------------------------------------------------
\* Properties
\* ------------------------------------------------------------------------

FreeIdx(o) == {i \in DOMAIN log : log[i].op = "free" /\ log[i].obj = o}

MemsetIdx == {i \in DOMAIN log : log[i].op = "memset"}

AllZero(s) == \A i \in DOMAIN s : s[i] = 0

Unresolvable(p) ==
    p.item_ret # PAM_SUCCESS \/ p.conv = NULL \/ p.conv_fn = NULL

\* position of the first zero byte of a terminated buffer
TerminatorPos(b) ==
    CHOOSE i \in DOMAIN b : b[i] = 0 /\ \A j \in 1..(i - 1) : b[j] # 0

\* the buffer with the bytes in front of its terminator set to zero
PrefixZeroed(b) ==
    [k \in DOMAIN b |-> IF k < TerminatorPos(b) THEN 0 ELSE b[k]]

WrapperStyle(e) ==
    CASE e = "pam_totp_prompt" -> PAM_PROMPT_ECHO_ON
      [] e = "pam_totp_info" -> PAM_TEXT_INFO
      [] e = "pam_totp_error" -> PAM_ERROR_MSG

\* C1: whenever the secret field is released, a zeroing step came before
\* the release and every byte of the field is zero at the release.
C1_SecureErasure ==
    \A i \in FreeIdx("buf") :
        /\ \E j \in MemsetIdx : j < i
        /\ AllZero(log[i].bytes)

\* C2: the callback is invoked at most once per call, exactly once when the
\* capability is resolved, with a batch of one message carrying the call's
\* style and text; a failure code does not cause a second invocation.
C2_SingleDispatch ==
    /\ Len(invocations) <= 1
    /\ \A i \in DOMAIN invocations :
        /\ invocations[i].num_msg = 1
        /\ invocations[i].msg_style = style
        /\ invocations[i].msg = msg
    /\ (pc \in {"cleanup", "field", "memset", "free_field", "free_resp",
                "return"} => Len(invocations) = 1)
    /\ (pc = "done" /\ ~Unresolvable(pamh) => Len(invocations) = 1)

C2_Witness ==
    /\ pc = "done"
    /\ Len(invocations) = 1
    /\ cb.ret # PAM_SUCCESS

\* C3: with an unresolvable capability the call goes from the lookup
\* straight to the return of PAM_CONV_ERR; the callback is not invoked and
\* nothing is zeroed or released.
C3_Unavailable ==
    (pc # "idle" /\ Unresolvable(pamh)) =>
        /\ pc \in {"get_item", "check", "done"}
        /\ invocations = <<>>
        /\ log = <<>>
        /\ (pc = "done" => result = PAM_CONV_ERR)

C3_Witness ==
    /\ pc = "done"
    /\ pamh.item_ret = PAM_SUCCESS
    /\ pamh.conv # NULL
    /\ pamh.conv_fn = NULL

\* C4: at the return of a call nothing of the response is still allocated;
\* a response handed back was released, its non-null secret field zeroed
\* and released, whatever raw code the callback returned.
C4_CleanupUnconditional ==
    pc = "done" =>
        /\ ~heap.env.live
        /\ ~heap.buf.live
        /\ (cb.resp # NULL =>
              /\ FreeIdx(cb.resp) # {}
              /\ (cb.field # NULL =>
                    MemsetIdx # {} /\ FreeIdx(cb.field) # {}))

C4_Witness ==
    /\ pc = "done"
    /\ cb.ret # PAM_SUCCESS
    /\ cb.resp # NULL
    /\ cb.field # NULL

\* C5: the envelope is released exactly once whether or not its secret
\* field is null; a null field is neither zeroed nor released; a non-null
\* field is released exactly once, before the envelope.
C5_EnvelopeOnce ==
    /\ Cardinality(FreeIdx("env")) <= 1
    /\ Cardinality(FreeIdx("buf")) <= 1
    /\ \A i \in DOMAIN log : log[i].obj # NULL
    /\ (pc = "done" /\ cb.resp # NULL =>
          /\ Cardinality(FreeIdx("env")) = 1
          /\ (cb.field = NULL => Len(log) = 1)
          /\ (cb.field # NULL =>
                /\ Cardinality(FreeIdx("buf")) = 1
                /\ \A i \in FreeIdx("buf"), j \in FreeIdx("env") : i < j))

C5_Witness ==
    /\ pc = "done"
    /\ cb.resp # NULL
    /\ cb.field = NULL

\* C6: after the callback ran, the returned status is the callback's raw
\* code read through the table of pam_bridge.h; a code outside the table
\* is returned with its value; the response plays no part.
C6_StatusMapping ==
    (pc = "done" /\ invocations # <<>>) =>
        /\ (cb.ret = PAM_SUCCESS => result = PAM_TOTP_SUCCESS)
        /\ (cb.ret = PAM_AUTH_ERR => result = PAM_TOTP_AUTH_ERR)
        /\ (cb.ret = PAM_USER_UNKNOWN => result = PAM_TOTP_USER_UNKNOWN)
        /\ (cb.ret = PAM_IGNORE => result = PAM_TOTP_IGNORE)
        /\ (cb.ret \notin {PAM_SUCCESS, PAM_AUTH_ERR, PAM_USER_UNKNOWN,
                           PAM_IGNORE} => result = cb.ret)

C6_Witness ==
    /\ pc = "done"
    /\ invocations # <<>>
    /\ cb.ret = PAM_SYSTEM_ERR
    /\ cb.resp # NULL

\* C7: a call through pam_totp_prompt runs pam_msg with PAM_PROMPT_ECHO_ON,
\* through pam_totp_info with PAM_TEXT_INFO, through pam_totp_error with
\* PAM_ERROR_MSG, and that is the style the callback sees.
C7_StyleRouting ==
    pc # "idle" =>
        /\ style = WrapperStyle(entry)
        /\ \A i \in DOMAIN invocations :
              invocations[i].msg_style = WrapperStyle(entry)

C7_Witness ==
    /\ pc = "done"
    /\ entry = "pam_totp_info"
    /\ invocations # <<>>

\* what of a call does not depend on the content of the secret field
Low(e, m, p, inv, c) ==
    <<e, m, p, inv, c.ret, c.resp, c.field, Len(c.bytes)>>

\* C8: two calls that agree on everything but the content of the secret
\* field return the same status and leave the same memory behind.
C8_Confidentiality ==
    (/\ pc = "done"
     /\ prev.valid
     /\ Low(prev.entry, prev.msg, prev.pamh, prev.invoked, prev.cb)
          = Low(entry, msg, pamh, invocations # <<>>, cb)) =>
        /\ prev.result = result
        /\ prev.heap = heap

C8_Witness ==
    /\ pc = "done"
    /\ entry = "pam_totp_prompt"
    /\ prev.valid
    /\ Low(prev.entry, prev.msg, prev.pamh, prev.invoked, prev.cb)
          = Low(entry, msg, pamh, invocations # <<>>, cb)
    /\ cb.field # NULL
    /\ prev.cb.bytes # cb.bytes

\* memset and free calls of a call whose callback returned c
ExpectedLog(c) ==
    IF c.resp = NULL THEN <<>>
    ELSE (IF c.field = NULL THEN <<>>
          ELSE <<[op |-> "memset", obj |-> c.field,
                  n |-> TerminatorPos(c.bytes) - 1,
                  bytes |-> PrefixZeroed(c.bytes)],
                 [op |-> "free", obj |-> c.field, n |-> 0,
                  bytes |-> PrefixZeroed(c.bytes)]>>)
         \o <<[op |-> "free", obj |-> c.resp, n |-> 0, bytes |-> <<>>]>>

\* what a call does, from its arguments and the callback's result alone
ExpectedOutcome(s, m, p, c) ==
    IF Unresolvable(p)
    THEN <<<<>>, <<>>, PAM_CONV_ERR>>
    ELSE <<<<[num_msg |-> 1, msg_style |-> s, msg |-> m,
              appdata_ptr |-> p.appdata_ptr]>>,
           ExpectedLog(c), c.ret>>

\* C9: the message sent, the cleanup performed and the status returned by
\* a call are determined by that call's arguments and the callback's result
\* in that call; between calls no response memory is allocated.
C9_CallIndependence ==
    /\ (pc = "done" =>
          <<invocations, log, result>>
              = ExpectedOutcome(style, msg, pamh, cb))
    /\ (pc \in {"idle", "get_item", "done"} =>
          ~heap.env.live /\ ~heap.buf.live)
    /\ (pc = "get_item" => resp = NULL)

C9_Witness ==
    /\ pc = "done"
    /\ prev.valid
    /\ prev.invoked
    /\ invocations # <<>>
    /\ prev.msg # msg
    /\ prev.cb # cb

\* C10: the zeroing covers exactly the bytes in front of the first zero
\* byte of the field; the bytes behind it are released as the callback left
\* them, and a field that starts with a zero byte is released unwritten.
C10_ZeroExtent ==
    \A i \in DOMAIN log :
        /\ (log[i].op = "memset" =>
              /\ log[i].n = TerminatorPos(cb.bytes) - 1
              /\ log[i].bytes = PrefixZeroed(cb.bytes))
        /\ (log[i].op = "free" /\ log[i].obj = "buf" =>
              /\ log[i].bytes = PrefixZeroed(cb.bytes)
              /\ (cb.bytes[1] = 0 => log[i].bytes = cb.bytes))

C10_Witness ==
    /\ pc = "done"
    /\ cb.field # NULL
    /\ cb.bytes = <<1, 0, 1>>
    /\ FreeIdx("buf") # {}

====
